---- MODULE Spec2Model ----
(***************************************************************************)
(* PO_Reader (src/PO.py): a Streamlit page that takes an uploaded purchase *)
(* order (image or PDF), sends it with a question to a generative model    *)
(* and offers a feedback form.                                             *)
(*                                                                         *)
(* Streamlit executes PO.py from top to bottom once per user event (a new  *)
(* upload, a changed text field, a clicked button).  One action of this    *)
(* model is one such event together with the complete script run that it   *)
(* triggers.  A button returns True only in the run triggered by a click   *)
(* on that very button; every other module-level name is rebuilt from      *)
(* scratch in each run.  What survives between runs is the widget state    *)
(* (the uploaded file, the question), the file system (feedback_log.txt,   *)
(* the temporary directory) and the remote service.                        *)
(***************************************************************************)
EXTENDS Integers, Sequences, FiniteSets, TLC

----------------------------------------------------------------------------
(* Bounds of the model *)

MaxBytes == 2
MaxPages == 2
MaxTempFiles == 2
MaxCalls == 1

----------------------------------------------------------------------------
(* Python values *)

\* A str is the sequence of its pieces (characters, or longer tokens): "" is <<>>
None == [tag |-> "None"]
Unbound == [tag |-> "Unbound"]
Str(s) == [tag |-> "str", val |-> s]
List(items) == [tag |-> "list", items |-> items]

\* Python truthiness of None, a str or a list
Truthy(v) ==
    CASE v.tag = "None" -> FALSE
      [] v.tag = "str"  -> v.val # <<>>
      [] v.tag = "list" -> v.items # <<>>
      [] OTHER          -> FALSE

RECURSIVE SeqsUpTo(_, _)
SeqsUpTo(S, n) ==
    IF n = 0 THEN {<<>>}
    ELSE LET shorter == SeqsUpTo(S, n - 1)
         IN  shorter \cup {Append(s, x) : s \in {t \in shorter : Len(t) = n - 1}, x \in S}

----------------------------------------------------------------------------
(* Inputs: uploaded documents, questions, remote outcomes *)

ByteVals == {0, 1}
Chars == {"a", "b"}
ImageTypes == {"image/jpeg", "image/png", "image/jpg"}
PdfType == "application/pdf"
OtherTypes == {"text/plain"}

PageTexts == {<<>>, <<"a">>, <<"b">>}
\* what get_text("text") does on one page: returns its text or raises
Pages == [ok : {TRUE}, text : PageTexts] \cup [ok : {FALSE}, text : {<<>>}]
\* what fitz.open makes of the bytes: not a PDF, or a document of pages
NotPdf == [ok |-> FALSE, pages |-> <<>>]
Parses == {NotPdf} \cup [ok : {TRUE}, pages : SeqsUpTo(Pages, MaxPages)]

ByteSeqs == SeqsUpTo(ByteVals, MaxBytes)

\* An UploadedFile: the declared media type, the raw bytes, whether PIL can
\* identify the bytes as an image, and what PyMuPDF makes of the bytes.
ImageDocs ==
    [tag : {"file"}, type : ImageTypes, value : ByteSeqs \ {<<>>},
     decodable : BOOLEAN, pdf : {NotPdf}]
    \cup [tag : {"file"}, type : ImageTypes, value : {<<>>},
          decodable : {FALSE}, pdf : {NotPdf}]
\* (a PDF's bytes matter by their number only: they are all taken to be 1)
PdfDocs ==
    [tag : {"file"}, type : {PdfType},
     value : {b \in ByteSeqs : b # <<>> /\ \A i \in 1..Len(b) : b[i] = 1},
     decodable : {FALSE}, pdf : Parses]
OtherDocs ==
    [tag : {"file"}, type : OtherTypes, value : ByteSeqs,
     decodable : {FALSE}, pdf : {NotPdf}]
Docs == ImageDocs \cup PdfDocs \cup OtherDocs

Queries == {<<>>, <<"Total?">>}
Validations == {<<"Yes">>, <<"No">>}
Feedbacks == {<<>>, <<"ok">>}
\* what model.generate_content(...).text gives: a text, or an exception
ModelFail == [tag |-> "raise"]
ModelOutcomes == {Str(<<"$500">>), Str(<<>>), ModelFail}

----------------------------------------------------------------------------
(* State *)

VARIABLES
    api_key,        \* os.getenv("GOOGLE_API_KEY"): None or the key, read at start
    uploaded_file,  \* the file_uploader widget's value: None or an UploadedFile
    query,          \* the text_input widget's value
    clicked,        \* the event that triggered the last script run
    image_data,     \* module-level name image_data at the end of the last run
    pdf_text,       \* module-level name pdf_text at the end of the last run
    response,       \* module-level name response (Unbound when never assigned)
    msgs,           \* st.error / st.warning / st.success texts shown by the last run
    fault,          \* the uncaught exception that ended the last run, or "none"
    controls,       \* the last run rendered the validation and feedback controls
    pos,            \* read position of the UploadedFile stream at the end of the run
    log_file,       \* the lines of feedback_log.txt
    temp_files,     \* number of files left in the temporary directory
    generate_calls, \* number of calls of model.generate_content so far
    sent            \* image_parts[0] of the last run's generate_content call, or None

vars == <<api_key, uploaded_file, query, clicked, image_data, pdf_text, response,
          msgs, fault, controls, pos, log_file, temp_files, generate_calls, sent>>

----------------------------------------------------------------------------
(* The UploadedFile stream (io.BytesIO) *)

\* BytesIO.getvalue(): the whole buffer, whatever the read position
getvalue(f) == f.value

\* BytesIO.read(): the bytes from the read position to the end
read(f, p) == SubSeq(f.value, p + 1, Len(f.value))

\* str.encode(): the UTF-8 bytes of a text
Encode(text) == [i \in 1..Len(text) |-> IF text[i] = "a" THEN 97 ELSE 98]

----------------------------------------------------------------------------
(* PO.py, lines 20-62: the three helpers *)

\* get_gemini_response: one generate_content call on [input_text,
\* image_parts[0], prompt]; any exception becomes st.error and None.
\* image_parts[0] is evaluated first and raises on None or an empty list.
get_gemini_response(input_text, image_parts, outcome) ==
    IF ~Truthy(image_parts)
    THEN [calls |-> 0, unit |-> None, result |-> None,
          msgs |-> {"Error with Gemini model"}]
    ELSE [calls  |-> 1,
          unit   |-> image_parts.items[1],
          result |-> IF outcome = ModelFail THEN None ELSE outcome,
          msgs   |-> IF outcome = ModelFail THEN {"Error with Gemini model"} ELSE {}]

\* input_image_setup: wraps the declared type and the whole buffer
input_image_setup(f) ==
    IF f # None
    THEN [result |-> List(<<[mime_type |-> f.type, data |-> getvalue(f)]>>),
          msgs   |-> {}]
    ELSE [result |-> None, msgs |-> {"No file uploaded."}]

\* The buffer of the temporary file (io.DEFAULT_BUFFER_SIZE or the block size
\* of the file system, thousands of bytes), on the scale of the model's files
BufferSize == 1

\* temp_pdf.write(data), line 54, seen from the file's name while the with
\* block is open: the file object is buffered and line 55 comes before any
\* flush or close, so data that fits the buffer has not reached the file
OnDisk(data) == IF Len(data) > BufferSize THEN data ELSE <<>>

\* fitz.open(temp_pdf.name): the upload's parse when the file holds the
\* upload's bytes, otherwise (an empty or cut file) an exception
fitz_open(on_disk, f) == IF on_disk = f.value THEN f.pdf ELSE NotPdf

\* the page loop of process_pdf, lines 56-57: pdf_text += page.get_text("text");
\* an exception on a page leaves the loop and the function
RECURSIVE ExtractPages(_, _, _)
ExtractPages(pages, page_num, text) ==
    IF page_num > Len(pages) THEN Str(text)
    ELSE IF ~pages[page_num].ok THEN None
    ELSE ExtractPages(pages, page_num + 1, text \o pages[page_num].text)

\* process_pdf: copy the stream to a temporary file, open it, concatenate
\* the pages' texts; any exception becomes st.error and None.  The temporary
\* file is made with delete=False and nothing unlinks it: each call leaves one.
process_pdf(f, p) ==
    LET doc  == fitz_open(OnDisk(read(f, p)), f)
        text == IF doc.ok THEN ExtractPages(doc.pages, 1, <<>>) ELSE None
    IN  [result |-> text,
         temps  |-> 1,
         msgs   |-> IF text = None THEN {"Error processing PDF"} ELSE {}]

----------------------------------------------------------------------------
(* PO.py, lines 10-17 and 72-138: the script body *)

\* lines 14-17: without a key the page shows an error and the script goes on
Startup(key) ==
    IF key = None THEN {"Google API Key is not set. Check your .env file."} ELSE {}

\* Image.open (line 80): PIL reads the stream to identify the format (hdr
\* bytes when it succeeds) and raises UnidentifiedImageError when it cannot
Image_open(f, hdr) ==
    IF f.decodable THEN [fault |-> "none", pos |-> hdr]
    ELSE [fault |-> "UnidentifiedImageError", pos |-> Len(f.value)]

\* lines 73-89: the media-type branch run on the uploader's value
UploadBranch(f, hdr) ==
    LET nothing == [image_data |-> None, pdf_text |-> None, msgs |-> {},
                    fault |-> "none", temps |-> 0, pos |-> 0]
    IN
    IF f = None THEN nothing
    ELSE IF f.type \in {"image/jpeg", "image/png", "image/jpg"} THEN
        LET image == Image_open(f, hdr)
            setup == input_image_setup(f)
        IN  IF image.fault # "none"
            THEN [nothing EXCEPT !.fault = image.fault, !.pos = image.pos]
            ELSE [nothing EXCEPT !.image_data = setup.result, !.msgs = setup.msgs,
                                 !.pos = image.pos]
    ELSE IF f.type = "application/pdf" THEN
        LET pdf == process_pdf(f, 0)
        IN  IF pdf.result = None
            \* line 89: None.encode() raises AttributeError
            THEN [nothing EXCEPT !.msgs = pdf.msgs, !.temps = pdf.temps,
                                 !.fault = "AttributeError", !.pos = Len(f.value)]
            ELSE [nothing EXCEPT
                    !.pdf_text = pdf.result, !.msgs = pdf.msgs, !.temps = pdf.temps,
                    !.pos = Len(f.value),
                    !.image_data = List(<<[mime_type |-> "text/plain",
                                           data |-> Encode(pdf.result.val)]>>)]
    ELSE nothing

\* st.button(label): True only in the run triggered by a click on that button
button(label, event) == event = label

\* the guard of line 106 written with "or"
HasInputOrQuery(data, q) == Truthy(data) \/ Truthy(Str(q))

\* line 106: if image_data and query
HasInputAndQuery(data, q) == Truthy(data) /\ Truthy(Str(q))

\* str(feedback_log): the dict's rendering, one token per piece
Repr(v) == IF v = None THEN <<"None">> ELSE <<"'">> \o v.val \o <<"'">>

DictStr(q, r, validation, feedback) ==
    <<"{'query': ">> \o Repr(Str(q)) \o <<", 'response': ">> \o Repr(r)
    \o <<", 'validation': ">> \o Repr(Str(validation))
    \o <<", 'feedback': ">> \o Repr(Str(feedback)) \o <<"}">>

\* lines 92-138: the question column, run after the upload branch
QueryColumn(data, q, event, outcome, validation, feedback, log) ==
    LET quiet == [response |-> Unbound, msgs |-> {}, fault |-> "none",
                  controls |-> FALSE, log |-> log, calls |-> 0, sent |-> None]
        submit == button("Submit Query", event)
    IN
    IF ~submit THEN quiet
    ELSE
        LET call == get_gemini_response(q, data, outcome)
            asked ==
                IF HasInputAndQuery(data, q)
                THEN [quiet EXCEPT
                        !.response = call.result, !.calls = call.calls,
                        !.sent = call.unit,
                        !.msgs = call.msgs \cup
                            (IF Truthy(call.result) THEN {}
                             ELSE {"No response received. Check model setup or query."})]
                ELSE [quiet EXCEPT
                        !.msgs = {"Please upload an image or PDF and enter a query."}]
            shown == [asked EXCEPT !.controls = TRUE]
        IN
        IF ~button("Submit Feedback", event) THEN shown
        ELSE IF shown.response = Unbound
        THEN [shown EXCEPT !.fault = "NameError"]
        ELSE [shown EXCEPT
                !.log = Append(log, DictStr(q, shown.response, validation, feedback)),
                !.msgs = @ \cup {"Feedback submitted. Thank you for helping improve the system!"}]

\* One complete run of PO.py on the widget state (f, q) for the given event
Run(f, q, event, hdr, outcome, validation, feedback) ==
    LET up  == UploadBranch(f, hdr)
        col == QueryColumn(up.image_data, q, event, outcome, validation, feedback, log_file)
        ran == up.fault = "none"
    IN
    /\ uploaded_file' = f
    /\ query' = q
    /\ clicked' = event
    /\ image_data' = up.image_data
    /\ pdf_text' = up.pdf_text
    /\ pos' = up.pos
    /\ temp_files' = temp_files + up.temps
    /\ response' = IF ran THEN col.response ELSE Unbound
    /\ msgs' = Startup(api_key) \cup up.msgs \cup (IF ran THEN col.msgs ELSE {})
    /\ fault' = IF ran THEN col.fault ELSE up.fault
    /\ controls' = (ran /\ col.controls)
    /\ log_file' = IF ran THEN col.log ELSE log_file
    /\ generate_calls' = generate_calls + (IF ran THEN col.calls ELSE 0)
    /\ sent' = IF ran THEN col.sent ELSE None
    /\ UNCHANGED api_key

----------------------------------------------------------------------------
(* Events *)

\* the run stays inside the model's bounds
WithinBounds(f, event) ==
    /\ (f # None /\ f.type = PdfType) => temp_files < MaxTempFiles
    /\ event = "Submit Query" => generate_calls < MaxCalls

\* how far Image.open may have read into a file it identifies
HeaderReads(f) == IF f # None /\ f.decodable THEN 1..Len(f.value) ELSE {0}

\* a line another session left in feedback_log.txt
OldLine == DictStr(<<"Old?">>, Str(<<"old">>), <<"No">>, <<"old">>)

Init ==
    /\ api_key \in {None, Str(<<"key">>)}
    /\ uploaded_file = None
    /\ query = <<>>
    /\ clicked = "start"
    /\ image_data = None
    /\ pdf_text = None
    /\ response = Unbound
    /\ msgs = Startup(api_key)
    /\ fault = "none"
    /\ controls = FALSE
    /\ pos = 0
    /\ log_file = <<OldLine>>
    /\ temp_files = 0
    /\ generate_calls = 0
    /\ sent = None

\* the user picks a file in the empty uploader.  (Picking a file over another
\* one leads to the same state as removing the old file first: the run on no
\* file changes nothing that outlives it, and a run reads nothing of the
\* file of the run before.)
Upload ==
    \E f \in Docs, hdr \in 0..MaxBytes :
        /\ uploaded_file = None
        /\ hdr \in HeaderReads(f)
        /\ WithinBounds(f, "Upload")
        /\ Run(f, query, "Upload", hdr, ModelFail, <<"Yes">>, <<>>)

\* the user removes the file from the uploader
RemoveUpload ==
    /\ uploaded_file # None
    /\ Run(None, query, "Remove", 0, ModelFail, <<"Yes">>, <<>>)

\* the user types a question (the text_input is rendered only by a run
\* that got past the upload branch)
EnterQuery ==
    \E q \in Queries, hdr \in 0..MaxBytes :
        /\ fault = "none"
        /\ q # query
        /\ hdr \in HeaderReads(uploaded_file)
        /\ WithinBounds(uploaded_file, "Query")
        /\ Run(uploaded_file, q, "Query", hdr, ModelFail, <<"Yes">>, <<>>)

\* the user clicks Submit Query
SubmitQuery ==
    \E outcome \in ModelOutcomes, hdr \in 0..MaxBytes :
        /\ fault = "none"
        /\ hdr \in HeaderReads(uploaded_file)
        /\ WithinBounds(uploaded_file, "Submit Query")
        /\ Run(uploaded_file, query, "Submit Query", hdr, outcome, <<"Yes">>, <<>>)

\* the user changes the radio or the feedback text shown by a Submit Query run
EditFeedback ==
    \E validation \in Validations, feedback \in Feedbacks, hdr \in 0..MaxBytes :
        /\ controls
        /\ <<validation, feedback>> # <<(<<"Yes">>), (<<>>)>>
        /\ hdr \in HeaderReads(uploaded_file)
        /\ WithinBounds(uploaded_file, "Edit")
        /\ Run(uploaded_file, query, "Edit", hdr, ModelFail, validation, feedback)

\* the user clicks Submit Feedback, shown by a Submit Query run
SubmitFeedback ==
    \E outcome \in ModelOutcomes, hdr \in 0..MaxBytes :
        /\ controls
        /\ hdr \in HeaderReads(uploaded_file)
        /\ WithinBounds(uploaded_file, "Submit Feedback")
        /\ Run(uploaded_file, query, "Submit Feedback", hdr, outcome, <<"Yes">>, <<>>)

Next ==
    \/ Upload
    \/ RemoveUpload
    \/ EnterQuery
    \/ SubmitQuery
    \/ EditFeedback
    \/ SubmitFeedback

Spec == Init /\ [][Next]_vars

----------------------------------------------------------------------------
(* Properties *)

SupportedTypes == ImageTypes \cup {PdfType}
IsFile(f) == f # None
Range(seq) == {seq[i] : i \in 1..Len(seq)}
LastLine(log) == log[Len(log)]

\* C1: an upload whose declared media type is not supported makes the
\* upload branch fail visibly: the run shows an error about the upload and
\* builds no input unit.
C1_UnsupportedTypeIsReported ==
    (IsFile(uploaded_file) /\ uploaded_file.type \notin SupportedTypes)
        => (image_data = None /\ msgs \ Startup(api_key) # {})

\* C2: no script run ends in an uncaught exception, whatever the user did
\* and whichever step failed.
C2_NoUncaughtFault == fault = "none"

\* C3: after every call of process_pdf, no temporary file is left behind.
C3_NoTempFileLeft == temp_files = 0

\* C4: a click on Submit Feedback appends exactly one line to the feedback
\* log, holding the query, the validation and the feedback, and leaves the
\* earlier lines as they were.
C4_FeedbackAppendsOneLine ==
    [][clicked' = "Submit Feedback" =>
          /\ Len(log_file') = Len(log_file) + 1
          /\ SubSeq(log_file', 1, Len(log_file)) = log_file
          /\ Range(query') \cup {"Yes"} \subseteq Range(LastLine(log_file'))]_vars

\* C5: in a run of the program without a credential, generate_content is
\* never called.
C5_NoCallWithoutCredential == api_key = None => generate_calls = 0

\* C6: when a Submit Query run ended with no response (the call failed or
\* was not made), a click on Submit Feedback records a line whose response
\* is None, and the run raises nothing.
C6_AbsentResponseIsRecorded ==
    [][(clicked = "Submit Query" /\ response \in {None, Unbound}
            /\ clicked' = "Submit Feedback") =>
          /\ fault' = "none"
          /\ Len(log_file') = Len(log_file) + 1
          /\ "None" \in Range(LastLine(log_file'))]_vars

EmptyTextUnit == [mime_type |-> "text/plain", data |-> <<>>]

\* C7: the model is never called with a text unit of no bytes: an empty
\* extraction counts as a failed one.
C7_NoEmptyTextSent == sent # EmptyTextUnit

\* C8: for an upload of a supported image type, whatever its bytes, the run
\* builds exactly one unit, with the declared type and the raw bytes.
C8_ImageUnitIsTheUpload ==
    (IsFile(uploaded_file) /\ uploaded_file.type \in ImageTypes)
        => image_data = List(<<[mime_type |-> uploaded_file.type,
                                data |-> uploaded_file.value]>>)

\* the number of characters on the pages before page i
RECURSIVE CharsBefore(_, _)
CharsBefore(pages, i) ==
    IF i <= 1 THEN 0 ELSE CharsBefore(pages, i - 1) + Len(pages[i - 1].text)

IsJoinOf(text, pages) ==
    /\ Len(text) = CharsBefore(pages, Len(pages) + 1)
    /\ \A i \in 1..Len(pages) : \A j \in 1..Len(pages[i].text) :
           text[CharsBefore(pages, i) + j] = pages[i].text[j]

\* C9: for a PDF of N pages, process_pdf returns the pages' texts joined in
\* page order with nothing between them (every character of page i sits
\* right after the characters of the pages before it); when the bytes are
\* no PDF or a page fails, it returns no text at all.
C9_PdfTextIsPagesInOrder ==
    (IsFile(uploaded_file) /\ uploaded_file.type = PdfType) =>
        LET doc == uploaded_file.pdf
        IN  IF doc.ok /\ \A i \in 1..Len(doc.pages) : doc.pages[i].ok
            THEN pdf_text # None /\ IsJoinOf(pdf_text.val, doc.pages)
            ELSE pdf_text = None

\* C10: generate_content is called only by a Submit Query run, once, with an
\* input unit at hand and a question that is not empty; a run with no
\* upload, an upload of an unsupported type or an empty question calls
\* nothing.
C10_ModelCallOnlyOnSubmit ==
    [][/\ generate_calls' # generate_calls =>
              /\ clicked' = "Submit Query"
              /\ generate_calls' = generate_calls + 1
              /\ image_data' # None
              /\ sent' = image_data'.items[1]
              /\ query' # <<>>
       /\ (\/ ~IsFile(uploaded_file')
           \/ (IsFile(uploaded_file') /\ uploaded_file'.type \notin SupportedTypes)
           \/ query' = <<>>) => generate_calls' = generate_calls]_vars

C10_ModelCalled ==
    /\ clicked = "Submit Query"
    /\ generate_calls = 1
    /\ sent # None
    /\ query # <<>>

====
